---- MODULE Spec2Model ----
(***************************************************************************)
(* Model of the index builders of GabAsencios/Information_Retrieval:       *)
(*   - the SPIMI block accumulator, block writer and block merger of the   *)
(*     Scrapy spider (Project2/.../spiders/spectrumspider.py);             *)
(*   - the two Reuters builders SPIMI() (SPIMI.py) and                     *)
(*     uncompressed_index() (Project1/Inverted_Index.py).                  *)
(*                                                                         *)
(* Python dicts are modelled as functions whose DOMAIN is the key set,     *)
(* Python lists as sequences.  A posting is the record                     *)
(* [docID, freq, url] appended at spectrumspider.py:310.                   *)
(***************************************************************************)
EXTENDS Integers, Sequences, FiniteSets, TLC

\* ------------------------------------------------------------------ bounds
\* Number of responses Scrapy hands to parse_pdf in one crawl.
MaxDocs == 2
\* Longest token stream tokenize() returns for one document.
MaxTokens == 2
\* Largest value tried for BLOCK_TERM_LIMIT (4000 in the source).
MaxLimit == 2
\* Number of flush_block calls that raise in one crawl.
MaxFaults == 1
\* Number of .sgm files, and of documents in all of them.
MaxFiles == 2
MaxCorpusDocs == 3
\* Number of terms of an index handed to a compression stage or to a query.
MaxIndexTerms == 2

\* The stemmed tokens tokenize() can return.
Terms == {"a", "b"}

\* ------------------------------------------------------------- helpers
Range(s) == {s[i] : i \in DOMAIN s}

SeqsUpTo(S, n) == UNION {[1..k -> S] : k \in 0..n}

\* What tokenize() can return for one PDF: any finite stream of terms, the
\* empty stream included (a text of 50+ characters made of digits, stopwords
\* and punctuation only).
TokenStreams == SeqsUpTo(Terms, MaxTokens)

\* {} of Python: the dict with no key.
EmptyDict == <<>>

VARIABLES
    BLOCK_TERM_LIMIT, \* self.BLOCK_TERM_LIMIT, fixed at construction
    max_documents,    \* self.max_documents; 0 stands for None (both falsy)
    document_count,   \* self.document_count
    block_number,     \* self.block_number
    inverted_block,   \* self.inverted_block: term -> list of postings
    disk,             \* blocks/block_<k>.json: k -> [closed, data]
    index_json,       \* index.json as written by closed()
    phase,            \* "open"; "closed": closed() returned; "flush_failed",
                      \* "merge_failed": closed() raised in its flush, in its merge
    closing,          \* CloseSpider has been raised by parse_pdf
    delivered,        \* number of responses handed to parse_pdf so far
    ingested,         \* history: the documents passed to add_to_spimi_block
    flushLog,         \* history: one entry per flush_block call
    pc,               \* per pending callback: where parse_pdf stands
    loc,              \* per pending callback: its locals doc_id, tokens, url
    corpus,           \* reuters21578/: the .sgm files in sorted(os.listdir) order,
                      \* each the list of its <reuters> documents [newid, text]
    spimi_index,      \* what SPIMI({}) returned, once it ran
    inverted_index,   \* what uncompressed_index({}) returned, once it ran
    input_index,      \* Inverted_Index.py __main__: the index handed to the
                      \* compression stages and to the queries, once it is built
    call,             \* the last call of a compression stage: its stage, the
                      \* index it returned, and its argument as the call left it
    answer,           \* what the last query of validate_queries_on_index gave
    collection,       \* query_engine.run_queries: what its last run computed
    extracted,        \* history: per response handed to parse_pdf, the PDF
                      \* and the docID it was given (0: none)
    tokenized         \* the last call of the spider's tokenize: text and result

spiderVars == <<BLOCK_TERM_LIMIT, max_documents, document_count, block_number,
                inverted_block, disk, index_json, phase, closing, delivered,
                ingested, flushLog, pc, loc>>

queryVars == <<input_index, call, answer, collection>>

textVars == <<extracted, tokenized>>

buildVars == <<corpus, spimi_index, inverted_index, queryVars, textVars>>

vars == <<spiderVars, buildVars>>

Callbacks == 1..MaxDocs

\* ------------------------------------------------- add_to_spimi_block
\* Counter(tokens): distinct token -> number of occurrences.
Counter(tokens) ==
    [t \in Range(tokens) |->
        Cardinality({i \in DOMAIN tokens : tokens[i] = t})]

Posting(doc_id, freq, url) == [docID |-> doc_id, freq |-> freq, url |-> url]

\* The for loop of add_to_spimi_block: one posting appended per distinct term.
AddToBlock(block, tokens, doc_id, url) ==
    LET term_freq == Counter(tokens) IN
    [t \in DOMAIN block \cup DOMAIN term_freq |->
        IF t \in DOMAIN term_freq
        THEN (IF t \in DOMAIN block THEN block[t] ELSE <<>>)
                 \o <<Posting(doc_id, term_freq[t], url)>>
        ELSE block[t]]

\* Mutants of the threshold check: > for >=, and == for >=.
BlockFullStrict(block, limit) == Cardinality(DOMAIN block) > limit
BlockFullExact(block, limit) == Cardinality(DOMAIN block) = limit

\* if len(self.inverted_block) >= self.BLOCK_TERM_LIMIT
BlockFull(block, limit) == Cardinality(DOMAIN block) >= limit

\* Mutant of the quota test: > for >=.
QuotaReachedStrict(maxdocs, count) == maxdocs # 0 /\ count > maxdocs

\* if self.max_documents and self.document_count >= self.max_documents
QuotaReached(maxdocs, count) == maxdocs # 0 /\ count >= maxdocs

\* ---------------------------------------------------------- flush_block
\* Mutant of the block numbering: a number is left out.
FlushNumberSkips(n) == n + 2

\* self.block_number += 1
FlushNumber(n) == n + 1

\* json.dump(block, f) run to the end: the whole object, closing brace written.
JsonDump(block) == [closed |-> TRUE, data |-> block]

\* with open(block_file, "w") as f: json.dump(self.inverted_block, f)
WriteBlock(d, k, block) ==
    [i \in DOMAIN d \cup {k} |-> IF i = k THEN JsonDump(block) ELSE d[i]]

\* History entry of one flush_block call: the number it took, the block it
\* was asked to write, and whether it returned (ok) or raised.
FlushEntry(n, block, ok) == [number |-> n, block |-> block, ok |-> ok]

\* ------------------------------------------------------------ closed
\* Mutant of the final-flush test: > 1 for > 0.
NeedsFinalFlushMany(block) == Cardinality(DOMAIN block) > 1

\* if len(self.inverted_block) > 0: self.flush_block()
NeedsFinalFlush(block) == Cardinality(DOMAIN block) > 0

\* os.path.exists(block_file)
Exists(d, i) == i \in DOMAIN d

\* json.load(f) raises on a document that is not closed.
JsonLoads(file) == file.closed

\* Mutants of the merge of one block: final_index[term] = postings (the
\* earlier blocks' postings overwritten); the block's postings put in front;
\* and a merge that drops a posting whose docID the term already has.
MergeBlockOverwrite(final, block) ==
    [t \in DOMAIN final \cup DOMAIN block |->
        IF t \in DOMAIN block THEN block[t] ELSE final[t]]

MergeBlockPrepend(final, block) ==
    [t \in DOMAIN final \cup DOMAIN block |->
        (IF t \in DOMAIN block THEN block[t] ELSE <<>>)
            \o (IF t \in DOMAIN final THEN final[t] ELSE <<>>)]

MergeBlockDedup(final, block) ==
    [t \in DOMAIN final \cup DOMAIN block |->
        LET old == IF t \in DOMAIN final THEN final[t] ELSE <<>>
            new == IF t \in DOMAIN block THEN block[t] ELSE <<>>
            Unseen(p) == \A i \in DOMAIN old : old[i].docID # p.docID
        IN old \o SelectSeq(new, Unseen)]

\* final_index[term].extend(postings) for every term of one block
MergeBlock(final, block) ==
    [t \in DOMAIN final \cup DOMAIN block |->
        (IF t \in DOMAIN final THEN final[t] ELSE <<>>)
            \o (IF t \in DOMAIN block THEN block[t] ELSE <<>>)]

\* Mutant of the merge loop: range(1, self.block_number), the last block left out.
RECURSIVE MergeBlocksSkipLast(_, _, _, _)
MergeBlocksSkipLast(final, d, i, n) ==
    IF i >= n THEN final
    ELSE IF ~Exists(d, i) THEN MergeBlocksSkipLast(final, d, i + 1, n)
    ELSE MergeBlocksSkipLast(MergeBlock(final, d[i].data), d, i + 1, n)

\* for i in range(1, self.block_number + 1): skip a missing file, merge the rest
RECURSIVE MergeBlocks(_, _, _, _)
MergeBlocks(final, d, i, n) ==
    IF i > n THEN final
    ELSE IF ~Exists(d, i) THEN MergeBlocks(final, d, i + 1, n)
    ELSE MergeBlocks(MergeBlock(final, d[i].data), d, i + 1, n)

\* Every block file the loop opens can be parsed.
AllLoad(d, n) == \A i \in 1..n : Exists(d, i) => JsonLoads(d[i])

\* An index variable before its builder ran.
NotBuilt == [built |-> FALSE, index |-> EmptyDict]

\* The last stage call, query and query_engine run, before there is one.
NoCall == [stage |-> "none"]

NoAnswer == [kind |-> "none"]

NotRun == [ran |-> FALSE]
NotCalled == [called |-> FALSE]

\* --------------------------------------------------------------- Init
NoFile == [written |-> FALSE, index |-> EmptyDict]

\* blocks/ is created when missing and never emptied (__init__): it may still
\* hold block files of an earlier build.
StaleDisks ==
    {EmptyDict,
     [k \in {1} |-> JsonDump([t \in {"a"} |-> <<Posting(1, 1, 0)>>])],
     [k \in {2} |-> JsonDump([t \in {"c"} |-> <<Posting(1, 2, 0)>>])]}

Init ==
    /\ BLOCK_TERM_LIMIT \in 1..MaxLimit
    /\ max_documents \in 0..MaxDocs
    /\ document_count = 0
    /\ block_number = 0
    /\ inverted_block = EmptyDict
    /\ disk \in StaleDisks
    /\ index_json = NoFile
    /\ phase = "open"
    /\ closing = FALSE
    /\ delivered = 0
    /\ ingested = <<>>
    /\ flushLog = <<>>
    /\ pc = [c \in Callbacks |-> "pending"]
    /\ loc = [c \in Callbacks |-> [doc_id |-> 0, tokens |-> <<>>, url |-> 0]]
    /\ corpus = <<>>
    /\ spimi_index = NotBuilt
    /\ inverted_index = NotBuilt
    /\ input_index = NotBuilt
    /\ call = NoCall
    /\ answer = NoAnswer
    /\ collection = NotRun
    /\ extracted = <<>>
    /\ tokenized = NotCalled

\* ------------------------------------------------ parse_pdf, whole handler
\* The limit was already reached: return at once.
ParsePdfLimitReached ==
    /\ phase = "open"
    /\ delivered < MaxDocs
    /\ QuotaReached(max_documents, document_count)
    /\ delivered' = delivered + 1
    /\ UNCHANGED <<buildVars, BLOCK_TERM_LIMIT, max_documents, document_count, block_number,
                   inverted_block, disk, index_json, phase, closing,
                   ingested, flushLog, pc, loc>>

\* fitz.open raises, or the extracted text without its leading and trailing
\* blanks is shorter than 50 characters: logged, nothing else happens.
ParsePdfNoText ==
    /\ phase = "open"
    /\ delivered < MaxDocs
    /\ ~QuotaReached(max_documents, document_count)
    /\ delivered' = delivered + 1
    /\ UNCHANGED <<buildVars, BLOCK_TERM_LIMIT, max_documents, document_count, block_number,
                   inverted_block, disk, index_json, phase, closing,
                   ingested, flushLog, pc, loc>>

\* Text extracted: count, tokenize, add_to_spimi_block (with its flush when
\* the block is full), then the quota check that raises CloseSpider.
ParsePdfIngest(tokens) ==
    /\ phase = "open"
    /\ delivered < MaxDocs
    /\ ~QuotaReached(max_documents, document_count)
    /\ delivered' = delivered + 1
    /\ document_count' = document_count + 1
    /\ LET doc_id == document_count'
           block == AddToBlock(inverted_block, tokens, doc_id, delivered')
       IN /\ ingested' = Append(ingested, [docID |-> doc_id, tokens |-> tokens])
          /\ IF BlockFull(block, BLOCK_TERM_LIMIT)
             THEN /\ block_number' = FlushNumber(block_number)
                  /\ disk' = WriteBlock(disk, block_number', block)
                  /\ flushLog' = Append(flushLog, FlushEntry(block_number', block, TRUE))
                  /\ inverted_block' = EmptyDict
             ELSE /\ inverted_block' = block
                  /\ UNCHANGED <<block_number, disk, flushLog>>
    /\ closing' = (closing \/ QuotaReached(max_documents, document_count'))
    /\ UNCHANGED <<buildVars, BLOCK_TERM_LIMIT, max_documents, index_json, phase, pc, loc>>

\* --------------------------------------------------- closed, whole handler
Closed ==
    /\ phase = "open"
    /\ \A c \in Callbacks : pc[c] \in {"pending", "done"}
    /\ LET flush == NeedsFinalFlush(inverted_block)
           n == IF flush THEN FlushNumber(block_number) ELSE block_number
           d == IF flush THEN WriteBlock(disk, n, inverted_block) ELSE disk
       IN /\ block_number' = n
          /\ disk' = d
          /\ flushLog' = IF flush
                         THEN Append(flushLog, FlushEntry(n, inverted_block, TRUE))
                         ELSE flushLog
          /\ inverted_block' = IF flush THEN EmptyDict ELSE inverted_block
          /\ IF n = 0
             THEN /\ phase' = "closed"
                  /\ UNCHANGED index_json
             ELSE IF AllLoad(d, n)
             THEN /\ phase' = "closed"
                  /\ index_json' = [written |-> TRUE,
                                    index |-> MergeBlocks(EmptyDict, d, 1, n)]
             ELSE /\ phase' = "merge_failed"
                  /\ UNCHANGED index_json
    /\ UNCHANGED <<buildVars, BLOCK_TERM_LIMIT, max_documents, document_count, closing,
                   delivered, ingested, pc, loc>>

Next ==
    \/ ParsePdfLimitReached
    \/ ParsePdfNoText
    \/ \E tokens \in TokenStreams : ParsePdfIngest(tokens)
    \/ Closed

Spec == Init /\ [][Next]_vars

\* ------------------------------------------- parse_pdf, statement by statement
\* Mutant of the dispatch: callbacks handed to a pool of threads.
CanRunConcurrently(c) == TRUE

\* parse_pdf is a plain synchronous method (no yield, no deferred, no thread):
\* the reactor thread that calls it runs it to its return before it calls the
\* next callback, whatever the number of responses that are waiting.
CanRun(c) == \A o \in Callbacks \ {c} : pc[o] \in {"pending", "done"}

\* Responses are numbered in the order the reactor hands them to parse_pdf.
NextInLine(c) == pc[c] = "pending" /\ \A o \in 1..(c - 1) : pc[o] # "pending"

SetPc(c, where) == pc' = [pc EXCEPT ![c] = where]

\* Line 215: the limit is already reached.
StepLimitReached(c) ==
    /\ phase = "open" /\ NextInLine(c) /\ CanRun(c)
    /\ QuotaReached(max_documents, document_count)
    /\ delivered' = delivered + 1
    /\ SetPc(c, "done")
    /\ UNCHANGED <<buildVars, BLOCK_TERM_LIMIT, max_documents, document_count, block_number,
                   inverted_block, disk, index_json, phase, closing,
                   ingested, flushLog, loc>>

\* Lines 222-237: no meaningful text.
StepNoText(c) ==
    /\ phase = "open" /\ NextInLine(c) /\ CanRun(c)
    /\ ~QuotaReached(max_documents, document_count)
    /\ delivered' = delivered + 1
    /\ SetPc(c, "done")
    /\ UNCHANGED <<buildVars, BLOCK_TERM_LIMIT, max_documents, document_count, block_number,
                   inverted_block, disk, index_json, phase, closing,
                   ingested, flushLog, loc>>

\* Lines 222-235: the text is extracted; tokens is what tokenize will return.
StepExtract(c, tokens) ==
    /\ phase = "open" /\ NextInLine(c) /\ CanRun(c)
    /\ ~QuotaReached(max_documents, document_count)
    /\ delivered' = delivered + 1
    /\ loc' = [loc EXCEPT ![c] = [doc_id |-> 0, tokens |-> tokens, url |-> c]]
    /\ SetPc(c, "count")
    /\ UNCHANGED <<buildVars, BLOCK_TERM_LIMIT, max_documents, document_count, block_number,
                   inverted_block, disk, index_json, phase, closing,
                   ingested, flushLog>>

\* Line 240: self.document_count += 1
StepCount(c) ==
    /\ pc[c] = "count"
    /\ document_count' = document_count + 1
    /\ SetPc(c, "assign")
    /\ UNCHANGED <<buildVars, BLOCK_TERM_LIMIT, max_documents, block_number, inverted_block,
                   disk, index_json, phase, closing, delivered, ingested,
                   flushLog, loc>>

\* Line 241: doc_id = self.document_count
StepAssign(c) ==
    /\ pc[c] = "assign"
    /\ loc' = [loc EXCEPT ![c].doc_id = document_count]
    /\ SetPc(c, "insert")
    /\ UNCHANGED <<buildVars, BLOCK_TERM_LIMIT, max_documents, document_count, block_number,
                   inverted_block, disk, index_json, phase, closing, delivered,
                   ingested, flushLog>>

\* Lines 303-310: the loop of add_to_spimi_block.
StepInsert(c) ==
    /\ pc[c] = "insert"
    /\ inverted_block' =
           AddToBlock(inverted_block, loc[c].tokens, loc[c].doc_id, loc[c].url)
    /\ ingested' = Append(ingested,
                          [docID |-> loc[c].doc_id, tokens |-> loc[c].tokens])
    /\ SetPc(c, "check")
    /\ UNCHANGED <<buildVars, BLOCK_TERM_LIMIT, max_documents, document_count, block_number,
                   disk, index_json, phase, closing, delivered, flushLog, loc>>

\* Line 313: the threshold check.
StepCheck(c) ==
    /\ pc[c] = "check"
    /\ SetPc(c, IF BlockFull(inverted_block, BLOCK_TERM_LIMIT)
                THEN "flush_number" ELSE "quota")
    /\ UNCHANGED <<buildVars, BLOCK_TERM_LIMIT, max_documents, document_count, block_number,
                   inverted_block, disk, index_json, phase, closing, delivered,
                   ingested, flushLog, loc>>

\* Line 319: self.block_number += 1
StepFlushNumber(c) ==
    /\ pc[c] = "flush_number"
    /\ block_number' = FlushNumber(block_number)
    /\ SetPc(c, "flush_write")
    /\ UNCHANGED <<buildVars, BLOCK_TERM_LIMIT, max_documents, document_count,
                   inverted_block, disk, index_json, phase, closing, delivered,
                   ingested, flushLog, loc>>

\* Lines 320-325: the file named after self.block_number is written.
StepFlushWrite(c) ==
    /\ pc[c] = "flush_write"
    /\ disk' = WriteBlock(disk, block_number, inverted_block)
    /\ flushLog' = Append(flushLog, FlushEntry(block_number, inverted_block, TRUE))
    /\ SetPc(c, "flush_reset")
    /\ UNCHANGED <<buildVars, BLOCK_TERM_LIMIT, max_documents, document_count, block_number,
                   inverted_block, index_json, phase, closing, delivered,
                   ingested, loc>>

\* Line 328: self.inverted_block = {}
StepFlushReset(c) ==
    /\ pc[c] = "flush_reset"
    /\ inverted_block' = EmptyDict
    /\ SetPc(c, "quota")
    /\ UNCHANGED <<buildVars, BLOCK_TERM_LIMIT, max_documents, document_count, block_number,
                   disk, index_json, phase, closing, delivered, ingested,
                   flushLog, loc>>

\* Lines 250-252: the quota check that raises CloseSpider.
StepQuota(c) ==
    /\ pc[c] = "quota"
    /\ closing' = (closing \/ QuotaReached(max_documents, document_count))
    /\ SetPc(c, "done")
    /\ UNCHANGED <<buildVars, BLOCK_TERM_LIMIT, max_documents, document_count, block_number,
                   inverted_block, disk, index_json, phase, delivered, ingested,
                   flushLog, loc>>

NextSteps ==
    \/ \E c \in Callbacks : StepLimitReached(c)
    \/ \E c \in Callbacks : StepNoText(c)
    \/ \E c \in Callbacks, tokens \in TokenStreams : StepExtract(c, tokens)
    \/ \E c \in Callbacks : StepCount(c)
    \/ \E c \in Callbacks : StepAssign(c)
    \/ \E c \in Callbacks : StepInsert(c)
    \/ \E c \in Callbacks : StepCheck(c)
    \/ \E c \in Callbacks : StepFlushNumber(c)
    \/ \E c \in Callbacks : StepFlushWrite(c)
    \/ \E c \in Callbacks : StepFlushReset(c)
    \/ \E c \in Callbacks : StepQuota(c)
    \/ Closed

SpecSteps == Init /\ [][NextSteps]_vars

\* ------------------------------------------------- flush_block that raises
\* What a flush_block that raises leaves on disk under number k:
\*   "open":  open(block_file, "w") raised, the directory entry is untouched;
\*   "dump":  the file was truncated by open and json.dump raised part-way.
FlushOutcomes == {"open", "dump"}

Faults == Cardinality({i \in DOMAIN flushLog : ~flushLog[i].ok})

\* A truncated dump: some prefix of the object and no closing brace.  json.load
\* raises on every such prefix, so which prefix it is does not matter to the
\* program and is left out.
PartialDump == [closed |-> FALSE, data |-> EmptyDict]

FailedWrite(d, k, outcome) ==
    IF outcome = "open" THEN d
    ELSE [i \in DOMAIN d \cup {k} |-> IF i = k THEN PartialDump ELSE d[i]]

\* parse_pdf whose flush_block raises OSError: block_number is already
\* incremented, the block is not reset, and the except clause of parse_pdf
\* (line 257) logs the error, so the quota check of line 250 is not reached.
ParsePdfFlushRaises(tokens, outcome) ==
    /\ phase = "open"
    /\ Faults < MaxFaults
    /\ delivered < MaxDocs
    /\ ~QuotaReached(max_documents, document_count)
    /\ delivered' = delivered + 1
    /\ document_count' = document_count + 1
    /\ LET doc_id == document_count'
           block == AddToBlock(inverted_block, tokens, doc_id, delivered')
       IN /\ BlockFull(block, BLOCK_TERM_LIMIT)
          /\ ingested' = Append(ingested, [docID |-> doc_id, tokens |-> tokens])
          /\ block_number' = FlushNumber(block_number)
          /\ disk' = FailedWrite(disk, block_number', outcome)
          /\ flushLog' = Append(flushLog, FlushEntry(block_number', block, FALSE))
          /\ inverted_block' = block
    /\ UNCHANGED <<buildVars, BLOCK_TERM_LIMIT, max_documents, index_json, phase, closing,
                   pc, loc>>

\* closed() whose final flush_block raises: nothing catches it, closed() ends
\* there and the merge does not run.
ClosedFlushRaises(outcome) ==
    /\ phase = "open"
    /\ Faults < MaxFaults
    /\ NeedsFinalFlush(inverted_block)
    /\ block_number' = FlushNumber(block_number)
    /\ disk' = FailedWrite(disk, block_number', outcome)
    /\ flushLog' = Append(flushLog, FlushEntry(block_number', inverted_block, FALSE))
    /\ phase' = "flush_failed"
    /\ UNCHANGED <<buildVars, BLOCK_TERM_LIMIT, max_documents, document_count,
                   inverted_block, index_json, closing, delivered, ingested,
                   pc, loc>>

NextIO ==
    \/ ParsePdfLimitReached
    \/ ParsePdfNoText
    \/ \E tokens \in TokenStreams : ParsePdfIngest(tokens)
    \/ Closed
    \/ \E tokens \in TokenStreams, outcome \in FlushOutcomes :
           ParsePdfFlushRaises(tokens, outcome)
    \/ \E outcome \in FlushOutcomes : ClosedFlushRaises(outcome)

SpecIO == Init /\ [][NextIO]_vars

\* =====================================================================
\* The two Reuters builders: SPIMI.py and Project1/Inverted_Index.py
\* =====================================================================
\* A NEWID attribute is a string of decimal digits; it is kept as the sequence
\* of its digits so that Python's string order can be computed.
NewIds == {<<2>>, <<9>>, <<1, 0>>}

\* Title + " " + body of one document, character by character.
Texts == {<<"a">>, <<"a", " ", "b">>, <<"b", "-", "b", " ">>}

Alnum == {"a", "b"}

\* re.split(r"[^A-Za-z0-9]+", text) without its empty strings: the maximal
\* runs of alphanumeric characters, in text order.  cur is the run being read.
RECURSIVE SplitRuns(_, _, _)
SplitRuns(text, i, cur) ==
    IF i > Len(text) THEN (IF cur = "" THEN <<>> ELSE <<cur>>)
    ELSE IF text[i] \in Alnum THEN SplitRuns(text, i + 1, cur \o text[i])
    ELSE (IF cur = "" THEN <<>> ELSE <<cur>>) \o SplitRuns(text, i + 1, "")

\* tokenize(text) of Project1/Inverted_Index.py; SPIMI.py:79 is the same
\* re.split followed by the same test for the empty string.
tokenize(text) == SplitRuns(text, 1, "")

\* a < b for two Python strings of digits: character by character, a proper
\* prefix first.
RECURSIVE StrLess(_, _)
StrLess(a, b) ==
    IF b = <<>> THEN FALSE
    ELSE IF a = <<>> THEN TRUE
    ELSE IF Head(a) # Head(b) THEN Head(a) < Head(b)
    ELSE StrLess(Tail(a), Tail(b))

\* sorted(S) for a set S of digit strings: ascending in string order.
RECURSIVE SortedStr(_)
SortedStr(S) ==
    IF S = {} THEN <<>>
    ELSE LET m == CHOOSE x \in S : \A y \in S \ {x} : StrLess(x, y)
         IN <<m>> \o SortedStr(S \ {m})

\* The docs dict of parse_sgm_file: docs[doc_id] = text, a later document with
\* the same NEWID replacing the text of an earlier one.
DocsOfFile(file) ==
    [id \in {file[i].newid : i \in DOMAIN file} |->
        file[CHOOSE i \in DOMAIN file :
                /\ file[i].newid = id
                /\ \A j \in DOMAIN file : file[j].newid = id => j <= i].text]

\* parse_sgm_file: F = sorted(list(set(F))) orders the pairs (term, doc_id) as
\* tuples of strings, so the docIDs of one term come out in string order.
parse_sgm_file(file) ==
    LET docs == DocsOfFile(file)
        F == {<<t, id>> : t \in UNION {Range(tokenize(docs[d])) : d \in DOMAIN docs},
                          id \in DOMAIN docs}
        pairs == {p \in F : p[1] \in Range(tokenize(docs[p[2]]))}
    IN [t \in {p[1] : p \in pairs} |->
           SortedStr({p[2] : p \in {q \in pairs : q[1] = t}})]

\* The merge loop of uncompressed_index for one file: extend, or first entry.
MergeFileIndex(all_documents, index) ==
    [w \in DOMAIN all_documents \cup DOMAIN index |->
        (IF w \in DOMAIN all_documents THEN all_documents[w] ELSE <<>>)
            \o (IF w \in DOMAIN index THEN index[w] ELSE <<>>)]

\* uncompressed_index(all_documents) over the files i..Len(files)
RECURSIVE uncompressed_index(_, _, _)
uncompressed_index(all_documents, files, i) ==
    IF i > Len(files) THEN all_documents
    ELSE uncompressed_index(MergeFileIndex(all_documents, parse_sgm_file(files[i])),
                            files, i + 1)

\* SPIMI, the loop over the tokens of one document: append the docID unless
\* the term's list holds it already.
RECURSIVE SpimiTokens(_, _, _, _)
SpimiTokens(all_documents, tokens, i, doc_id) ==
    IF i > Len(tokens) THEN all_documents
    ELSE LET term == tokens[i]
             old == IF term \in DOMAIN all_documents THEN all_documents[term] ELSE <<>>
             new == IF doc_id \in Range(old) THEN old ELSE Append(old, doc_id)
         IN SpimiTokens([w \in DOMAIN all_documents \cup {term} |->
                            IF w = term THEN new ELSE all_documents[w]],
                        tokens, i + 1, doc_id)

\* SPIMI, the loop over the documents of one file, in file order.
RECURSIVE SpimiFile(_, _, _)
SpimiFile(all_documents, file, i) ==
    IF i > Len(file) THEN all_documents
    ELSE SpimiFile(SpimiTokens(all_documents, tokenize(file[i].text), 1, file[i].newid),
                   file, i + 1)

\* SPIMI(all_documents) over the files i..Len(files)
RECURSIVE SPIMI(_, _, _)
SPIMI(all_documents, files, i) ==
    IF i > Len(files) THEN all_documents
    ELSE SPIMI(SpimiFile(all_documents, files[i], 1), files, i + 1)

\* --------------------------------------------------------- the corpus
CorpusDocs == UNION {{doc.newid : doc \in Range(corpus[f])} : f \in DOMAIN corpus}

CorpusSize == Cardinality(CorpusDocs)

NothingBuilt == ~spimi_index.built /\ ~inverted_index.built

\* One more .sgm file in reuters21578/.
AddFile ==
    /\ NothingBuilt
    /\ Len(corpus) < MaxFiles
    /\ corpus' = Append(corpus, <<>>)
    /\ UNCHANGED <<spiderVars, textVars, spimi_index, inverted_index, queryVars>>

\* One more <reuters> document in the last file; NEWIDs are unique in the
\* collection.
AddDocument(newid, text) ==
    /\ NothingBuilt
    /\ Len(corpus) >= 1
    /\ CorpusSize < MaxCorpusDocs
    /\ newid \notin CorpusDocs
    /\ corpus' = [corpus EXCEPT ![Len(corpus)] =
                      Append(@, [newid |-> newid, text |-> text])]
    /\ UNCHANGED <<spiderVars, textVars, spimi_index, inverted_index, queryVars>>

\* spimi_index = SPIMI({})
RunSPIMI ==
    /\ ~spimi_index.built
    /\ spimi_index' = [built |-> TRUE, index |-> SPIMI(EmptyDict, corpus, 1)]
    /\ UNCHANGED <<spiderVars, textVars, corpus, inverted_index, queryVars>>

\* inverted_index = uncompressed_index({})
RunTraditional ==
    /\ ~inverted_index.built
    /\ inverted_index' = [built |-> TRUE,
                          index |-> uncompressed_index(EmptyDict, corpus, 1)]
    /\ UNCHANGED <<spiderVars, textVars, corpus, spimi_index, queryVars>>

NextBuild ==
    \/ AddFile
    \/ \E newid \in NewIds, text \in Texts : AddDocument(newid, text)
    \/ RunSPIMI
    \/ RunTraditional

\* The spider takes no part in the Reuters builds: one spider state is enough.
InitBuild ==
    /\ Init
    /\ BLOCK_TERM_LIMIT = 1 /\ max_documents = 0 /\ disk = EmptyDict

SpecBuild == InitBuild /\ [][NextBuild]_vars

\* =====================================================================
\* The compression stages and the queries of Project1/Inverted_Index.py
\* =====================================================================
\* A term is kept as the sequence of its characters, so that str.lower(),
\* str.strip() and re.fullmatch can be computed character by character.  A
\* docID is the NEWID string, kept as the sequence of its digits (NewIds).
Upper == <<"A", "B", "C", "D", "E", "F", "G", "H", "I", "J", "K", "L", "M",
           "N", "O", "P", "Q", "R", "S", "T", "U", "V", "W", "X", "Y", "Z">>

Lower == <<"a", "b", "c", "d", "e", "f", "g", "h", "i", "j", "k", "l", "m",
           "n", "o", "p", "q", "r", "s", "t", "u", "v", "w", "x", "y", "z">>

\* str.lower() of one character; tokenize() lets only A-Z, a-z, 0-9 through.
LowerChar(c) ==
    IF \E i \in DOMAIN Upper : Upper[i] = c
    THEN Lower[CHOOSE i \in DOMAIN Upper : Upper[i] = c]
    ELSE c

\* term.lower()
lower(term) == [i \in DOMAIN term |-> LowerChar(term[i])]

\* The characters of a term as one string, to look it up in a stopword set.
RECURSIVE Join(_)
Join(term) == IF term = <<>> THEN "" ELSE Head(term) \o Join(Tail(term))

Digits == {"0", "1", "2", "3", "4", "5", "6", "7", "8", "9"}

\* re.fullmatch(r'\d+', term): one or more characters, every one a digit.
FullMatchDigits(term) == Len(term) >= 1 /\ \A i \in DOMAIN term : term[i] \in Digits

\* int(x) for a string of decimal digits.
RECURSIVE int(_)
int(x) == IF x = <<>> THEN 0 ELSE 10 * int(SubSeq(x, 1, Len(x) - 1)) + x[Len(x)]

\* str(n) for n >= 0: the decimal numeral without leading zeros.
RECURSIVE str(_)
str(n) == IF n < 10 THEN <<n>> ELSE str(n \div 10) \o <<n % 10>>

\* sorted(list(set(postings)), key=int)
RECURSIVE SortedByInt(_)
SortedByInt(S) ==
    IF S = {} THEN <<>>
    ELSE LET m == CHOOSE x \in S : \A y \in S : int(x) <= int(y)
         IN <<m>> \o SortedByInt(S \ {m})

\* list(set(postings)): the elements of the set in the order in which the set
\* iterates, which depends on the hashes of the strings; rank is that order.
RECURSIVE ListOfSet(_, _)
ListOfSet(S, rank) ==
    IF S = {} THEN <<>>
    ELSE LET m == CHOOSE x \in S : \A y \in S : rank[x] <= rank[y]
         IN <<m>> \o ListOfSet(S \ {m}, rank)

STOPWORDS_30 ==
    {"a", "an", "and", "are", "as", "at", "be", "been", "but", "by",
     "did", "do", "does", "for", "from", "has", "have", "in", "is",
     "it", "of", "on", "or", "that", "the", "this", "to", "was", "were",
     "with"}

STOPWORDS_150 ==
    {"a", "about", "above", "after", "again", "all", "am", "an", "and",
     "are", "as", "at", "be", "been", "before", "being", "below",
     "between", "both", "but", "by", "can", "could", "did", "do",
     "does", "doing", "down", "during", "each", "few", "for", "from",
     "further", "had", "has", "have", "having", "he", "her", "here",
     "him", "his", "how", "i", "if", "in", "into", "is", "it", "its",
     "just", "may", "me", "might", "more", "most", "must", "my", "no",
     "nor", "not", "now", "of", "off", "on", "once", "only", "or",
     "other", "our", "out", "over", "own", "same", "shall", "should",
     "so", "some", "such", "than", "that", "the", "their", "them",
     "then", "there", "these", "they", "this", "those", "through", "to",
     "too", "under", "up", "us", "very", "was", "were", "what", "when",
     "where", "which", "who", "whom", "whose", "why", "will", "with",
     "would", "you", "your"}

\* ------------------------------------------------ objects of one stage call
\* A stage receives a dict object whose values are list objects and may alias
\* or change either.  mem.dicts maps the name of a dict object to its items
\* (term -> reference of a list object), mem.lists a list reference to the
\* list's elements.  The argument of a call is the dict object "index".
Enter(idx) ==
    [dicts |-> [n \in {"index"} |-> [t \in DOMAIN idx |-> <<"index", t>>]],
     lists |-> [r \in {<<"index", t>> : t \in DOMAIN idx} |-> idx[r[2]]]]

\* The mapping term -> list of docIDs that dict object d holds.
Value(mem, d) == [t \in DOMAIN mem.dicts[d] |-> mem.lists[mem.dicts[d][t]]]

\* A new dict object, and new list objects, next to the existing ones.
Bind(dicts, name, items) ==
    [n \in DOMAIN dicts \cup {name} |-> IF n = name THEN items ELSE dicts[n]]

Alloc(lists, new) ==
    [r \in DOMAIN lists \cup DOMAIN new |-> IF r \in DOMAIN new THEN new[r] ELSE lists[r]]

\* The docIDs of the terms of dict d that Key maps to k, as a set.
Gathered(mem, d, key, k) ==
    UNION {Range(mem.lists[mem.dicts[d][t]]) :
              t \in {u \in DOMAIN mem.dicts[d] : key[u] = k}}

\* Mutants of case_fold: sorted() without key=int, and extend without set().
case_foldStringOrder(mem, d) ==
    LET key == [t \in DOMAIN mem.dicts[d] |-> lower(t)]
        keys == {key[t] : t \in DOMAIN mem.dicts[d]}
    IN [dicts |-> Bind(mem.dicts, "folded_index",
                       [k \in keys |-> <<"folded_index", k>>]),
        lists |-> Alloc(mem.lists,
                        [r \in {<<"folded_index", k>> : k \in keys} |->
                            SortedStr(Gathered(mem, d, key, r[2]))]),
        out |-> "folded_index"]

\* case_fold(index): a new dict of new lists; per lowercase term the docIDs of
\* all the terms that lowercase to it, set() and sorted(key=int).
case_fold(mem, d) ==
    LET key == [t \in DOMAIN mem.dicts[d] |-> lower(t)]
        keys == {key[t] : t \in DOMAIN mem.dicts[d]}
    IN [dicts |-> Bind(mem.dicts, "folded_index",
                       [k \in keys |-> <<"folded_index", k>>]),
        lists |-> Alloc(mem.lists,
                        [r \in {<<"folded_index", k>> : k \in keys} |->
                            SortedByInt(Gathered(mem, d, key, r[2]))]),
        out |-> "folded_index"]

\* Mutants of remove_numeric_terms: re.match for re.fullmatch (a term that
\* starts with a digit is dropped), and the argument filtered in place
\* (filtered = index; del filtered[term]).
remove_numeric_termsMatch(mem, d) ==
    [dicts |-> Bind(mem.dicts, "filtered_numeric",
                    [t \in {u \in DOMAIN mem.dicts[d] :
                               ~(Len(u) >= 1 /\ u[1] \in Digits)} |-> mem.dicts[d][t]]),
     lists |-> mem.lists,
     out |-> "filtered_numeric"]

remove_numeric_termsInPlace(mem, d) ==
    [dicts |-> Bind(mem.dicts, d,
                    [t \in {u \in DOMAIN mem.dicts[d] : ~FullMatchDigits(u)} |->
                        mem.dicts[d][t]]),
     lists |-> mem.lists,
     out |-> d]

\* remove_numeric_terms(index): a new dict that holds, for every term that is
\* not all digits, the very list object of the argument.
remove_numeric_terms(mem, d) ==
    [dicts |-> Bind(mem.dicts, "filtered_numeric",
                    [t \in {u \in DOMAIN mem.dicts[d] : ~FullMatchDigits(u)} |->
                        mem.dicts[d][t]]),
     lists |-> mem.lists,
     out |-> "filtered_numeric"]

\* compress_index_30_stopwords(index)
compress_index_30_stopwords(mem, d) ==
    [dicts |-> Bind(mem.dicts, "filtered_30",
                    [t \in {u \in DOMAIN mem.dicts[d] :
                               Join(lower(u)) \notin STOPWORDS_30} |-> mem.dicts[d][t]]),
     lists |-> mem.lists,
     out |-> "filtered_30"]

\* Mutant of compress_index_150_stopwords: term for term.lower().
compress_index_150_stopwordsCased(mem, d) ==
    [dicts |-> Bind(mem.dicts, "filtered_150",
                    [t \in {u \in DOMAIN mem.dicts[d] :
                               Join(u) \notin STOPWORDS_150} |-> mem.dicts[d][t]]),
     lists |-> mem.lists,
     out |-> "filtered_150"]

\* compress_index_150_stopwords(index)
compress_index_150_stopwords(mem, d) ==
    [dicts |-> Bind(mem.dicts, "filtered_150",
                    [t \in {u \in DOMAIN mem.dicts[d] :
                               Join(lower(u)) \notin STOPWORDS_150} |-> mem.dicts[d][t]]),
     lists |-> mem.lists,
     out |-> "filtered_150"]

\* Mutant of apply_stemming: stemmed[stemmed_term] = postings for extend, so
\* that of the terms with one stem a single one keeps its postings.
apply_stemmingOverwrite(mem, d, stem, rank) ==
    LET keys == {stem[t] : t \in DOMAIN mem.dicts[d]}
        last(k) == CHOOSE t \in DOMAIN mem.dicts[d] : stem[t] = k
    IN [dicts |-> Bind(mem.dicts, "stemmed", [k \in keys |-> <<"stemmed", k>>]),
        lists |-> Alloc(mem.lists,
                        [r \in {<<"stemmed", k>> : k \in keys} |->
                            ListOfSet(Range(mem.lists[mem.dicts[d][last(r[2])]]), rank)]),
        out |-> "stemmed"]

\* apply_stemming(index): a new dict of new lists; per stem the docIDs of all
\* the terms with that stem, list(set()) and not sorted.  stem is what
\* stemmer.stem returns for each term of the argument.
apply_stemming(mem, d, stem, rank) ==
    LET keys == {stem[t] : t \in DOMAIN mem.dicts[d]}
    IN [dicts |-> Bind(mem.dicts, "stemmed", [k \in keys |-> <<"stemmed", k>>]),
        lists |-> Alloc(mem.lists,
                        [r \in {<<"stemmed", k>> : k \in keys} |->
                            ListOfSet(Gathered(mem, d, stem, r[2]), rank)]),
        out |-> "stemmed"]

\* Mutant of build_compressed_index: the 150-stopword stage is left out.
build_compressed_indexNo150(mem, d, stem, rank) ==
    LET folded == case_fold(mem, d)
        numeric == remove_numeric_terms(folded, folded.out)
        small == compress_index_30_stopwords(numeric, numeric.out)
    IN apply_stemming(small, small.out, stem, rank)

\* build_compressed_index(index): the five stages, each on the result of the
\* one before.
build_compressed_index(mem, d, stem, rank) ==
    LET folded == case_fold(mem, d)
        numeric == remove_numeric_terms(folded, folded.out)
        small == compress_index_30_stopwords(numeric, numeric.out)
        large == compress_index_150_stopwords(small, small.out)
    IN apply_stemming(large, large.out, stem, rank)


\* ------------------------------------------------ the indexes tried
\* Terms as tokenize() produces them: runs of letters and digits, any case.
IndexTerms ==
    {<<"T", "h", "e">>, <<"t", "h", "e">>, <<"w", "h", "o">>,
     <<"1", "2", "3">>, <<"a", "b", "c", "1", "2", "3">>,
     <<"1", "2", "3", "a", "b", "c">>}

\* Postings lists as the builders produce them: NEWIDs, none of them twice,
\* in file order (SPIMI) or in string order (parse_sgm_file).
PostingsLists ==
    {<<<<2>>>>, <<<<1, 0>>, <<2>>>>, <<<<2>>, <<1, 0>>>>, <<<<9>>, <<1, 0>>>>}

Indexes ==
    UNION {[keys -> PostingsLists] :
              keys \in {S \in SUBSET IndexTerms : Cardinality(S) <= MaxIndexTerms}}

\* What the stemmer may return: a stem may be any string, a stopword among
\* them ("hers" stems to "her").
Stems == {<<"o", "i", "l">>, <<"h", "e", "r">>}

\* The orders in which a set of docID strings may iterate.
Orders ==
    {r \in [NewIds -> 1..Cardinality(NewIds)] :
        \A x, y \in NewIds : x # y => r[x] # r[y]}

\* What is kept of one stage call: the stage, what stemmer.stem returned, the
\* index the call returned and the argument as the call left it.  One call is
\* kept at a time: the next stage runs once the result is handed on (PassOn).
Result(stage, mem, stem) ==
    [stage |-> stage, stem |-> stem,
     output |-> Value(mem, mem.out), input_after |-> Value(mem, "index")]

\* inverted_index = uncompressed_index(inverted_index) of __main__
LoadIndex(idx) ==
    /\ ~input_index.built
    /\ delivered = 0 /\ phase = "open" /\ ~collection.ran
    /\ input_index' = [built |-> TRUE, index |-> idx]
    /\ UNCHANGED <<spiderVars, textVars, corpus, spimi_index, inverted_index,
                   call, answer, collection>>

\* case_folded_index = case_fold(inverted_index)
RunCaseFold ==
    /\ input_index.built /\ call = NoCall
    /\ call' = Result("case_fold", case_fold(Enter(input_index.index), "index"),
                      EmptyDict)
    /\ UNCHANGED <<spiderVars, textVars, corpus, spimi_index, inverted_index,
                   input_index, answer, collection>>

RunRemoveNumeric ==
    /\ input_index.built /\ call = NoCall
    /\ call' = Result("remove_numeric_terms",
                      remove_numeric_terms(Enter(input_index.index), "index"),
                      EmptyDict)
    /\ UNCHANGED <<spiderVars, textVars, corpus, spimi_index, inverted_index,
                   input_index, answer, collection>>

RunStopwords30 ==
    /\ input_index.built /\ call = NoCall
    /\ call' = Result("compress_index_30_stopwords",
                      compress_index_30_stopwords(Enter(input_index.index), "index"),
                      EmptyDict)
    /\ UNCHANGED <<spiderVars, textVars, corpus, spimi_index, inverted_index,
                   input_index, answer, collection>>

RunStopwords150 ==
    /\ input_index.built /\ call = NoCall
    /\ call' = Result("compress_index_150_stopwords",
                      compress_index_150_stopwords(Enter(input_index.index), "index"),
                      EmptyDict)
    /\ UNCHANGED <<spiderVars, textVars, corpus, spimi_index, inverted_index,
                   input_index, answer, collection>>

\* apply_stemming on the index, with any stemmer and any set order.
RunStemming(stem, rank) ==
    /\ input_index.built /\ call = NoCall
    /\ call' = Result("apply_stemming",
                      apply_stemming(Enter(input_index.index), "index", stem, rank),
                      stem)
    /\ UNCHANGED <<spiderVars, textVars, corpus, spimi_index, inverted_index,
                   input_index, answer, collection>>

\* compressed_final_index = build_compressed_index(inverted_index)
RunBuildCompressed(stem, rank) ==
    /\ input_index.built /\ call = NoCall
    /\ call' = Result("build_compressed_index",
                      build_compressed_index(Enter(input_index.index), "index",
                                             stem, rank),
                      stem)
    /\ UNCHANGED <<spiderVars, textVars, corpus, spimi_index, inverted_index,
                   input_index, answer, collection>>

\* The index a stage returned is handed to the next stage, as in the chain
\* of __main__ and of build_compressed_index.
PassOn ==
    /\ call.stage # "none"
    /\ input_index' = [built |-> TRUE, index |-> call.output]
    /\ call' = NoCall
    /\ UNCHANGED <<spiderVars, textVars, corpus, spimi_index, inverted_index,
                   answer, collection>>

LowerKeys(idx) == {lower(t) : t \in DOMAIN idx}

NextStages ==
    \/ \E idx \in Indexes : LoadIndex(idx)
    \/ RunCaseFold
    \/ RunRemoveNumeric
    \/ RunStopwords30
    \/ RunStopwords150
    \/ \E stem \in [DOMAIN input_index.index -> Stems], rank \in Orders :
           RunStemming(stem, rank)
    \/ \E stem \in [LowerKeys(input_index.index) -> Stems], rank \in Orders :
           RunBuildCompressed(stem, rank)
    \/ PassOn

SpecStages == InitBuild /\ [][NextStages]_vars


\* ------------------------------------------------------------- queries
\* A Python value that is a docID: the int of index.json, or the str of the
\* Reuters indexes; 1 and "1" are different values.
PyInt(n) == [int |-> n]

PyStr(digits) == [str |-> digits]

\* int(x) for a docID of either type.
IntOf(v) == IF "int" \in DOMAIN v THEN v.int ELSE int(v.str)

\* sorted(ints): ascending, equal elements kept.
RECURSIVE Sorted(_)
Sorted(ints) ==
    IF ints = <<>> THEN <<>>
    ELSE LET m == CHOOSE i \in DOMAIN ints : \A j \in DOMAIN ints : ints[i] <= ints[j]
         IN <<ints[m]>> \o Sorted(SubSeq(ints, 1, m - 1) \o SubSeq(ints, m + 1, Len(ints)))

\* The while loop of intersect: two cursors, the lesser one advanced, a match
\* appended as str(p1[i]).
RECURSIVE TwoPointer(_, _, _, _)
TwoPointer(p1, p2, i, j) ==
    IF i > Len(p1) \/ j > Len(p2) THEN <<>>
    ELSE IF p1[i] = p2[j] THEN <<PyStr(str(p1[i]))>> \o TwoPointer(p1, p2, i + 1, j + 1)
    ELSE IF p1[i] < p2[j] THEN TwoPointer(p1, p2, i + 1, j)
    ELSE TwoPointer(p1, p2, i, j + 1)

\* Mutant of intersect: no int(): the lists sorted and compared as strings.
RECURSIVE TwoPointerStr(_, _, _, _)
TwoPointerStr(p1, p2, i, j) ==
    IF i > Len(p1) \/ j > Len(p2) THEN <<>>
    ELSE IF p1[i] = p2[j] THEN <<PyStr(p1[i])>> \o TwoPointerStr(p1, p2, i + 1, j + 1)
    ELSE IF StrLess(p1[i], p2[j]) THEN TwoPointerStr(p1, p2, i + 1, j)
    ELSE TwoPointerStr(p1, p2, i, j + 1)

intersectAsStrings(p1, p2) ==
    LET text(p) == [i \in DOMAIN p |-> str(IntOf(p[i]))]
    IN TwoPointerStr(SortedStr(Range(text(p1))), SortedStr(Range(text(p2))), 1, 1)

\* intersect(p1, p2), the same code in Inverted_Index.py and in query_engine.py
intersect(p1, p2) ==
    TwoPointer(Sorted([i \in DOMAIN p1 |-> IntOf(p1[i])]),
               Sorted([i \in DOMAIN p2 |-> IntOf(p2[i])]), 1, 1)

\* str.strip(): leading and trailing whitespace removed.
Whitespace == {" ", "\t", "\n"}

\* str.strip(): from the first to the last character that is not whitespace.
strip(term) ==
    LET inked == {i \in DOMAIN term : term[i] \notin Whitespace}
    IN IF inked = {} THEN <<>>
       ELSE SubSeq(term, CHOOSE i \in inked : \A j \in inked : i <= j,
                         CHOOSE i \in inked : \A j \in inked : i >= j)

\* process_single_term_query(index, term): strip, then index.get(term, [])
process_single_term_query(idx, term) ==
    LET t == strip(term) IN IF t \in DOMAIN idx THEN idx[t] ELSE <<>>

\* The postings list of a Reuters index as the Python list of str it is.
StrList(postings) == [i \in DOMAIN postings |-> PyStr(postings[i])]

\* Mutant of the AND query: index[terms[0]] and index[terms[1]] without the
\* test for the keys; a missing key raises KeyError.
and_queryUnguarded(idx, terms) ==
    IF terms[1] \in DOMAIN idx /\ terms[2] \in DOMAIN idx
    THEN [raised |-> FALSE,
          result |-> intersect(StrList(idx[terms[1]]), StrList(idx[terms[2]]))]
    ELSE [raised |-> TRUE, result |-> <<>>]

\* The AND query of validate_queries_on_index: intersect when both terms are
\* keys, [] otherwise.
and_query(idx, terms) ==
    IF terms[1] \in DOMAIN idx /\ terms[2] \in DOMAIN idx
    THEN [raised |-> FALSE,
          result |-> intersect(StrList(idx[terms[1]]), StrList(idx[terms[2]]))]
    ELSE [raised |-> FALSE, result |-> <<>>]

\* get_doc_details(term) of query_engine.py, term already lowercased and
\* stemmed: the doc_id and freq of every posting, [] for a missing key.
get_doc_details(idx, stemmed_term) ==
    IF stemmed_term \in DOMAIN idx
    THEN [i \in DOMAIN idx[stemmed_term] |->
             [doc_id |-> PyInt(idx[stemmed_term][i].docID),
              freq |-> idx[stemmed_term][i].freq]]
    ELSE <<>>

\* ids = [d['doc_id'] for d in details]
DocIdsOf(details) == [i \in DOMAIN details |-> details[i].doc_id]

\* The queries tried: terms in either case, padded with blanks, and absent.
Queries ==
    {<<"T", "h", "e">>, <<"t", "h", "e">>, <<" ", "t", "h", "e", "\n">>,
     <<"W", "h", "o">>, <<"g", "a", "s">>}

AndTerms == {<<"T", "h", "e">>, <<"t", "h", "e">>, <<"w", "h", "o">>}

\* What stemmer.stem(term.lower()) gives for the two query words of
\* run_queries: an index key or not.
QueryStems == Terms \cup {"q"}

\* The index a query is put to: the loaded one, or the one the last stage
\* call returned.
Target == IF call.stage = "none" THEN input_index.index ELSE call.output

\* process_single_term_query(index, q) in validate_queries_on_index
SingleTermQuery(q) ==
    /\ input_index.built
    /\ answer' = [kind |-> "single", query |-> q, on |-> Target,
                  folded |-> (call.stage = "case_fold"), raised |-> FALSE,
                  result |-> process_single_term_query(Target, q)]
    /\ UNCHANGED <<spiderVars, textVars, corpus, spimi_index, inverted_index,
                   input_index, call, collection>>

\* One AND query of validate_queries_on_index
AndQuery(terms) ==
    /\ input_index.built
    /\ LET r == and_query(Target, terms)
       IN answer' = [kind |-> "and", query |-> terms, on |-> Target,
                     folded |-> (call.stage = "case_fold"), raised |-> r.raised,
                     result |-> r.result]
    /\ UNCHANGED <<spiderVars, textVars, corpus, spimi_index, inverted_index,
                   input_index, call, collection>>

\* run_queries() of query_engine.py once the crawl is over: index.json is
\* loaded, or missing; a and b are the stemmed query words.
RunQueries(a, b) ==
    /\ phase = "closed" /\ ~collection.ran
    /\ IF ~index_json.written
       THEN collection' = [ran |-> TRUE, loaded |-> FALSE]
       ELSE LET details_a == get_doc_details(index_json.index, a)
                details_b == get_doc_details(index_json.index, b)
            IN collection' =
                   [ran |-> TRUE, loaded |-> TRUE, query |-> <<a, b>>,
                    details |-> <<details_a, details_b>>,
                    ids |-> <<DocIdsOf(details_a), DocIdsOf(details_b)>>,
                    common_ids |-> intersect(DocIdsOf(details_a), DocIdsOf(details_b))]
    /\ UNCHANGED <<spiderVars, textVars, corpus, spimi_index, inverted_index,
                   input_index, call, answer>>

\* The crawl that writes index.json for run_queries; max_documents is None
\* here, so parse_pdf never finds the limit reached.  Either this program
\* runs or Inverted_Index.py does.
Crawl ==
    /\ ~input_index.built
    /\ \/ ParsePdfNoText
       \/ \E tokens \in TokenStreams : ParsePdfIngest(tokens)
       \/ Closed

NextQuery ==
    \/ Crawl
    \/ \E a, b \in QueryStems : RunQueries(a, b)
    \/ \E idx \in Indexes : LoadIndex(idx)
    \/ RunCaseFold
    \/ \E q \in Queries : SingleTermQuery(q)
    \/ \E t1, t2 \in AndTerms : AndQuery(<<t1, t2>>)

SpecQuery == InitBuild /\ [][NextQuery]_vars


\* ------------------------------------------- add_to_spimi_block, called
\* add_to_spimi_block(tokens, doc_id, url) as a method of the spider, called
\* with any docID, one already used in the open block included: the postings
\* are appended and the block is flushed when it is full.  The url is that of
\* the document, taken to be its docID.
CallAddToSpimiBlock(tokens, doc_id) ==
    /\ phase = "open"
    /\ Len(ingested) < MaxDocs
    /\ LET block == AddToBlock(inverted_block, tokens, doc_id, doc_id)
       IN /\ ingested' = Append(ingested, [docID |-> doc_id, tokens |-> tokens])
          /\ IF BlockFull(block, BLOCK_TERM_LIMIT)
             THEN /\ block_number' = FlushNumber(block_number)
                  /\ disk' = WriteBlock(disk, block_number', block)
                  /\ flushLog' = Append(flushLog, FlushEntry(block_number', block, TRUE))
                  /\ inverted_block' = EmptyDict
             ELSE /\ inverted_block' = block
                  /\ UNCHANGED <<block_number, disk, flushLog>>
    /\ UNCHANGED <<buildVars, BLOCK_TERM_LIMIT, max_documents, document_count,
                   index_json, phase, closing, delivered, pc, loc>>

NextAccumulator ==
    \/ \E tokens \in TokenStreams, doc_id \in 1..MaxDocs :
           CallAddToSpimiBlock(tokens, doc_id)
    \/ Closed

SpecAccumulator == Init /\ [][NextAccumulator]_vars


\* ------------------------------------------------ the text of a PDF
\* Characters outside ASCII are written by their code point: U+00C9 and
\* U+00E9 are the E and e with acute accent, U+0130 is the capital I with dot
\* above and U+0307 the combining dot above.
\* str.lower() of one character: the characters it becomes.
LowerOf(c) ==
    IF c = "U+0130" THEN <<"i", "U+0307">>
    ELSE IF c = "U+00C9" THEN <<"U+00E9">>
    ELSE <<LowerChar(c)>>

\* text.lower(): the characters of the text, each lowercased, one half of
\* the text after the other.
RECURSIVE LowerText(_)
LowerText(text) ==
    IF text = <<>> THEN <<>>
    ELSE IF Len(text) = 1 THEN LowerOf(text[1])
    ELSE LET half == Len(text) \div 2
         IN LowerText(SubSeq(text, 1, half)) \o LowerText(SubSeq(text, half + 1, Len(text)))

\* The characters [a-z0-9] of the regular expression of tokenize.
LowerAlnum == Range(Lower) \cup Digits

\* The least number of a non-empty set of numbers.
Least(S) == CHOOSE n \in S : \A m \in S : n <= m

\* re.split(r"[^a-z0-9]+", text) from position i on: the next match of the
\* pattern is the first character outside a-z0-9 with all such characters
\* that follow it; the piece before the match is given, the search goes on
\* after it, and what is left after the last match is the last piece.  The
\* pieces at the two ends may be empty.
RECURSIVE ReSplit(_, _)
ReSplit(text, i) ==
    LET others == {j \in i..Len(text) : text[j] \notin LowerAlnum}
    IN IF others = {} THEN <<SubSeq(text, i, Len(text))>>
       ELSE LET from == Least(others)
                to == Least({k \in from..Len(text) :
                               k = Len(text) \/ text[k + 1] \in LowerAlnum})
            IN <<SubSeq(text, i, from - 1)>> \o ReSplit(text, to + 1)

\* STOPWORDS of the spider
STOPWORDS ==
    {"the", "and", "a", "an", "of", "to", "in", "on", "for", "is", "are",
     "with", "that", "this", "it", "as", "by", "be", "from", "at", "was",
     "were", "or", "but", "not", "can", "could", "should", "would", "may",
     "also", "we", "they", "their", "its", "these", "those", "such"}

\* stemmer.stem(t) of nltk's PorterStemmer, which is not part of the
\* repository: a pure function of the word.  Of its rules the model has the
\* plural rule: the s that ends a word of more than two letters, and is not
\* after another s, is dropped.
PorterStem(t) ==
    IF Len(t) > 2 /\ t[Len(t)] = "s" /\ t[Len(t) - 1] # "s"
    THEN SubSeq(t, 1, Len(t) - 1)
    ELSE t

\* The loop of tokenize over raw_tokens: the empty string, the numerals and
\* the stopwords are skipped, the stem of every other token is appended.
RECURSIVE CleanTokens(_)
CleanTokens(raw_tokens) ==
    IF raw_tokens = <<>> THEN <<>>
    ELSE LET t == Head(raw_tokens)
         IN (IF t = <<>> \/ FullMatchDigits(t) \/ Join(t) \in STOPWORDS
             THEN <<>>
             ELSE <<Join(PorterStem(t))>>) \o CleanTokens(Tail(raw_tokens))

\* Mutant of the spider's tokenize: the text is not lowercased.
spider_tokenizeNoLower(text) == CleanTokens(ReSplit(text, 1))

\* tokenize(text) of the spider
spider_tokenize(text) == CleanTokens(ReSplit(LowerText(text), 1))

\* The 50 of parse_pdf's test of the extracted text.
MIN_TEXT_LENGTH == 50

\* The character c, n times.
Repeat(c, n) == [i \in 1..n |-> c]

\* The texts extracted from the PDFs tried: a text of words, a numeral and a
\* stopword; the same words without the numeral, too short; two words far
\* apart; blanks only; nothing; a name with U+0130; a word with U+00E9.  The
\* numeral of 50 digits gives the text its length and no token.
PdfTexts ==
    {<<"G", "a", "s", " ", "W", "a", "s", "t", "e", "s", " ", "t", "h", "e", "\n">>
         \o Repeat("7", MIN_TEXT_LENGTH),
     <<"G", "a", "s", " ", "W", "a", "s", "t", "e", "s">>,
     <<"G", "a", "s">> \o Repeat(" ", MIN_TEXT_LENGTH) \o <<"B", "2">>,
     Repeat(" ", MIN_TEXT_LENGTH),
     <<>>,
     <<"D", "E", "N", "U+0130", "Z", " ">> \o Repeat("7", MIN_TEXT_LENGTH),
     <<"c", "a", "f", "U+00E9", " ">> \o Repeat("7", MIN_TEXT_LENGTH)}

\* A PDF: whether fitz.open and get_text succeed on it, and the text they give.
PdfDocs ==
    {[opens |-> FALSE, text |-> <<>>]} \cup {[opens |-> TRUE, text |-> t] : t \in PdfTexts}

\* Mutant of the test of the extracted text: the text is not stripped.
HasMeaningfulTextUnstripped(doc) == doc.opens /\ Len(doc.text) >= MIN_TEXT_LENGTH

\* not (not extracted_text or len(extracted_text.strip()) < 50), after a
\* fitz.open and get_text that did not raise
HasMeaningfulText(doc) == doc.opens /\ Len(strip(doc.text)) >= MIN_TEXT_LENGTH

\* parse_pdf, whole handler, on the response that carries PDF doc.
ParsePdfText(doc) ==
    /\ phase = "open"
    /\ delivered < MaxDocs
    /\ delivered' = delivered + 1
    /\ IF QuotaReached(max_documents, document_count) \/ ~HasMeaningfulText(doc)
       THEN /\ extracted' = Append(extracted, [doc |-> doc, doc_id |-> 0])
            /\ UNCHANGED <<document_count, block_number, inverted_block, disk,
                           ingested, flushLog, closing, tokenized>>
       ELSE /\ document_count' = document_count + 1
            /\ LET doc_id == document_count'
                   tokens == spider_tokenize(doc.text)
                   block == AddToBlock(inverted_block, tokens, doc_id, delivered')
               IN /\ extracted' = Append(extracted, [doc |-> doc, doc_id |-> doc_id])
                  /\ tokenized' = [called |-> TRUE, text |-> doc.text, tokens |-> tokens]
                  /\ ingested' = Append(ingested, [docID |-> doc_id, tokens |-> tokens])
                  /\ IF BlockFull(block, BLOCK_TERM_LIMIT)
                     THEN /\ block_number' = FlushNumber(block_number)
                          /\ disk' = WriteBlock(disk, block_number', block)
                          /\ flushLog' = Append(flushLog,
                                                FlushEntry(block_number', block, TRUE))
                          /\ inverted_block' = EmptyDict
                     ELSE /\ inverted_block' = block
                          /\ UNCHANGED <<block_number, disk, flushLog>>
            /\ closing' = (closing \/ QuotaReached(max_documents, document_count'))
    /\ UNCHANGED <<corpus, spimi_index, inverted_index, queryVars,
                   BLOCK_TERM_LIMIT, max_documents, index_json, phase, pc, loc>>

\* tokenize(text) called on the spider before any response has arrived.
CallTokenize(text) ==
    /\ phase = "open" /\ delivered = 0
    /\ tokenized' = [called |-> TRUE, text |-> text, tokens |-> spider_tokenize(text)]
    /\ UNCHANGED <<spiderVars, corpus, spimi_index, inverted_index, queryVars, extracted>>

NextText ==
    \/ \E doc \in PdfDocs : ParsePdfText(doc)
    \/ \E text \in PdfTexts : CallTokenize(text)
    \/ Closed

SpecText == Init /\ [][NextText]_vars


\* =====================================================================
\* Properties
\* =====================================================================
DocIDs(postings) == {postings[i].docID : i \in DOMAIN postings}

\* The unblocked build over the same token streams: its terms, and per term
\* the documents that hold it.
IngestedTerms == UNION {Range(ingested[i].tokens) : i \in DOMAIN ingested}

IngestedDocs(t) ==
    {ingested[i].docID : i \in {j \in DOMAIN ingested : t \in Range(ingested[j].tokens)}}

Idle == \A c \in Callbacks : pc[c] \in {"pending", "done"}

\* C1: once closed() has returned, the index it wrote has exactly the terms of
\* the ingested token streams and, per term, exactly the docIDs of the documents
\* holding that term (docIDs being 1, 2, 3, ... in ingestion order); it writes
\* no index only when no document contributed a term.
C1_BuildEquivalence ==
    phase = "closed" =>
        /\ \A i \in DOMAIN ingested : ingested[i].docID = i
        /\ IF index_json.written
           THEN /\ DOMAIN index_json.index = IngestedTerms
                /\ \A t \in IngestedTerms :
                       DocIDs(index_json.index[t]) = IngestedDocs(t)
           ELSE IngestedTerms = {}

\* A merged index of two blocks in which one term has postings of two documents.
C1_Witness ==
    /\ phase = "closed" /\ index_json.written /\ block_number >= 2
    /\ \E t \in DOMAIN index_json.index : Len(index_json.index[t]) >= 2

\* C3: in the index closed() wrote, every postings list is strictly ascending
\* by docID.
C3_MergedAscending ==
    index_json.written =>
        \A t \in DOMAIN index_json.index :
            \A i, j \in DOMAIN index_json.index[t] :
                i < j => index_json.index[t][i].docID < index_json.index[t][j].docID

\* A term whose postings come from block 1 and from block 2.
C3_Witness ==
    /\ index_json.written /\ block_number = 2
    /\ \E t \in Terms : t \in DOMAIN disk[1].data /\ t \in DOMAIN disk[2].data

\* All postings of term t in the block files 1..n, in block order.
RECURSIVE BlockPostings(_, _, _)
BlockPostings(t, i, n) ==
    IF i > n THEN <<>>
    ELSE (IF Exists(disk, i) /\ t \in DOMAIN disk[i].data
          THEN disk[i].data[t] ELSE <<>>) \o BlockPostings(t, i + 1, n)

MergedTerms ==
    UNION {DOMAIN disk[i].data : i \in {k \in 1..block_number : Exists(disk, k)}}

C5_FlushExactlyAtThreshold ==
    [][ phase' = "open" =>
          LET ingest == Len(ingested') = Len(ingested) + 1
              tokens == ingested'[Len(ingested')].tokens
              distinct == Cardinality(DOMAIN inverted_block \cup Range(tokens))
              flushed == Len(flushLog') = Len(flushLog) + 1
          IN IF ingest
             THEN /\ flushed <=> distinct >= BLOCK_TERM_LIMIT
                  /\ flushed => /\ Cardinality(DOMAIN inverted_block') = 0
                                /\ block_number' = block_number + 1
                  /\ ~flushed => /\ flushLog' = flushLog
                                 /\ block_number' = block_number
                                 /\ Cardinality(DOMAIN inverted_block') = distinct
             ELSE flushLog' = flushLog /\ inverted_block' = inverted_block ]_vars

\* A block was flushed by add_to_spimi_block and the next one is being filled.
C5_Witness ==
    /\ phase = "open" /\ Len(flushLog) >= 1
    /\ Cardinality(DOMAIN inverted_block) >= 1

\* C6 as stated: the open block never holds more than BLOCK_TERM_LIMIT terms.
C6_BlockAtMostLimit == Cardinality(DOMAIN inverted_block) <= BLOCK_TERM_LIMIT

\* C6 as amended: between two calls the open block holds fewer than
\* BLOCK_TERM_LIMIT terms; while a document is being added it holds at most
\* BLOCK_TERM_LIMIT - 1 terms plus the distinct terms of that document.
C6_BlockBoundedBetweenCalls ==
    /\ Idle => Cardinality(DOMAIN inverted_block) < BLOCK_TERM_LIMIT
    /\ \A c \in Callbacks :
           pc[c] \notin {"pending", "done"} =>
               Cardinality(DOMAIN inverted_block)
                   <= BLOCK_TERM_LIMIT - 1 + Cardinality(Range(loc[c].tokens))

\* The terms are inserted, the threshold is not checked yet, and the block is
\* over the limit.
C6_Witness ==
    \E c \in Callbacks :
        pc[c] = "check" /\ Cardinality(DOMAIN inverted_block) > BLOCK_TERM_LIMIT

\* No posting is written by two flushes.
FlushContentsDisjoint ==
    \A i, j \in DOMAIN flushLog :
        i < j =>
            \A t \in DOMAIN flushLog[i].block \cap DOMAIN flushLog[j].block :
                Range(flushLog[i].block[t]) \cap Range(flushLog[j].block[t]) = {}

\* C7: closed() flushes a non-empty open block exactly once, under the next
\* block number, and merges after that: every posting of that block is in the
\* index closed() writes; an empty open block is not flushed; and no posting
\* is ever flushed twice.
C7_FinalFlushOnceBeforeMerge ==
    /\ []FlushContentsDisjoint
    /\ [][ (phase = "open" /\ phase' # "open") =>
             IF Cardinality(DOMAIN inverted_block) > 0
             THEN /\ Len(flushLog') = Len(flushLog) + 1
                  /\ block_number' = block_number + 1
                  /\ disk'[block_number'] = JsonDump(inverted_block)
                  /\ inverted_block' = EmptyDict
                  /\ index_json'.written
                  /\ \A t \in DOMAIN inverted_block :
                         /\ t \in DOMAIN index_json'.index
                         /\ Range(inverted_block[t]) \subseteq Range(index_json'.index[t])
             ELSE flushLog' = flushLog /\ block_number' = block_number ]_vars

\* closed() has flushed a block that was below the threshold, after two
\* documents, and merged it.
C7_Witness ==
    /\ phase = "closed" /\ index_json.written
    /\ Len(ingested) = 2 /\ Len(flushLog) >= 1
    /\ Cardinality(DOMAIN flushLog[Len(flushLog)].block) < BLOCK_TERM_LIMIT

\* The index holds every (term, docID) pair of the ingested documents and no
\* docID of any other document.
IndexReflectsIngested ==
    /\ \A i \in DOMAIN ingested :
           \A t \in Range(ingested[i].tokens) :
               /\ t \in DOMAIN index_json.index
               /\ ingested[i].docID \in DocIDs(index_json.index[t])
    /\ \A t \in DOMAIN index_json.index :
           DocIDs(index_json.index[t]) \subseteq IngestedDocs(t)

\* C8 as stated: after a stop on the quota, closed() has written a final index
\* that reflects exactly the documents ingested so far, whatever their number
\* and the number of blocks flushed.
C8_QuotaStopWritesIndex ==
    (phase = "closed" /\ closing) => index_json.written /\ IndexReflectsIngested

\* C8 as amended: after a stop on the quota, closed() has written such an index
\* when some ingested document contributed a term, and has written no index
\* when none did (block_number is 0 and closed() returns before the merge).
C8_QuotaStopWritesIndexIfAnyTerm ==
    (phase = "closed" /\ closing) =>
        /\ document_count = max_documents
        /\ Len(ingested) = document_count
        /\ IF IngestedTerms # {}
           THEN index_json.written /\ IndexReflectsIngested
           ELSE ~index_json.written

\* The quota stopped the crawl after two flushed blocks and the index is written.
C8_Witness ==
    /\ phase = "closed" /\ closing /\ index_json.written
    /\ Len(flushLog) >= 2

C10_NoPartialBlockAtMerge ==
    phase \in {"closed", "merge_failed"} =>
        \A k \in 1..block_number : Exists(disk, k) => JsonLoads(disk[k])

\* C2: once both builders have run over the same corpus, SPIMI() and
\* uncompressed_index() have returned the same mapping: the same terms and,
\* for every term, the same list of docIDs.
C2_IdenticalIndices ==
    (spimi_index.built /\ inverted_index.built) =>
        spimi_index.index = inverted_index.index

\* All postings of term t in the block files 1..n that json.load can read, in
\* block order: what a merge that skips the other files would put under t.
RECURSIVE ReadablePostings(_, _, _)
ReadablePostings(t, i, n) ==
    IF i > n THEN <<>>
    ELSE (IF Exists(disk, i) /\ JsonLoads(disk[i]) /\ t \in DOMAIN disk[i].data
          THEN disk[i].data[t] ELSE <<>>) \o ReadablePostings(t, i + 1, n)

ReadableTerms ==
    UNION {DOMAIN disk[i].data :
              i \in {k \in 1..block_number : Exists(disk, k) /\ JsonLoads(disk[k])}}

\* C11 as stated: when closed() has run its merge over the blocks
\* 1..block_number, it has written the final index whether or not a block
\* file is missing or unreadable, and that index holds exactly the postings
\* of the block files that are present and readable.
C11_MergeSkipsBadBlock ==
    (phase \in {"closed", "merge_failed"} /\ block_number >= 1) =>
        /\ index_json.written
        /\ DOMAIN index_json.index = ReadableTerms
        /\ \A t \in ReadableTerms :
               index_json.index[t] = ReadablePostings(t, 1, block_number)

\* The docIDs that index x holds under the terms that key maps to k.
DocsUnder(x, key, k) == UNION {Range(x[t]) : t \in {u \in DOMAIN x : key[u] = k}}

DuplicateFree(postings) == Len(postings) = Cardinality(Range(postings))

AscendingByInt(postings) ==
    \A i, j \in DOMAIN postings : i < j => int(postings[i]) < int(postings[j])

\* C16: the index case_fold returns has at most as many keys as its argument,
\* its keys are exactly the lowercase forms of the argument's keys, and the
\* postings of a key are the docIDs of all the terms that lowercase to it,
\* each once, ascending by numeric docID.
C16_CaseFoldMerges ==
    call.stage = "case_fold" =>
        LET x == input_index.index
            y == call.output
            low == [t \in DOMAIN x |-> lower(t)]
        IN /\ Cardinality(DOMAIN y) <= Cardinality(DOMAIN x)
           /\ DOMAIN y = {low[t] : t \in DOMAIN x}
           /\ \A k \in DOMAIN y :
                  /\ Range(y[k]) = DocsUnder(x, low, k)
                  /\ DuplicateFree(y[k])
                  /\ AscendingByInt(y[k])

\* Two terms that differ by case only were merged, into a list that holds 9
\* before 10.
C16_Witness ==
    /\ call.stage = "case_fold"
    /\ Cardinality(DOMAIN call.output) < Cardinality(DOMAIN input_index.index)
    /\ \E k \in DOMAIN call.output :
           \E i \in DOMAIN call.output[k] :
               /\ i < Len(call.output[k])
               /\ call.output[k][i] = <<9>> /\ call.output[k][i + 1] = <<1, 0>>

\* C17: remove_numeric_terms drops a term exactly when the term is one or
\* more characters that are all digits 0-9; every other term, "abc123" and
\* "123abc" among them, is kept with the postings list it had.
C17_NumericFilterExact ==
    call.stage = "remove_numeric_terms" =>
        LET x == input_index.index
            y == call.output
        IN /\ DOMAIN y \subseteq DOMAIN x
           /\ \A t \in DOMAIN x :
                  t \notin DOMAIN y <=>
                      (t # <<>> /\ \A i \in DOMAIN t : t[i] \in Digits)
           /\ \A t \in DOMAIN y : y[t] = x[t]
           /\ \A t \in {<<"a", "b", "c", "1", "2", "3">>,
                        <<"1", "2", "3", "a", "b", "c">>} :
                  t \in DOMAIN x => t \in DOMAIN y

\* "123" was dropped and "123abc" kept.
C17_Witness ==
    /\ call.stage = "remove_numeric_terms"
    /\ <<"1", "2", "3">> \in DOMAIN input_index.index
    /\ <<"1", "2", "3">> \notin DOMAIN call.output
    /\ <<"1", "2", "3", "a", "b", "c">> \in DOMAIN call.output

\* C18: the 30-word filter returns at most as many terms as it was given; the
\* 150-word filter returns, for the same argument, at most as many terms as
\* the 30-word filter, and drops every term the 30-word filter drops;
\* STOPWORDS_30 is a subset of STOPWORDS_150, and a term is dropped by its
\* lowercase form.
C18_StopwordMonotone ==
    /\ STOPWORDS_30 \subseteq STOPWORDS_150
    /\ call.stage = "compress_index_30_stopwords" =>
           /\ DOMAIN call.output \subseteq DOMAIN input_index.index
           /\ Cardinality(DOMAIN call.output) <= Cardinality(DOMAIN input_index.index)
           /\ \A t \in DOMAIN input_index.index :
                  t \notin DOMAIN call.output <=> Join(lower(t)) \in STOPWORDS_30
    /\ call.stage = "compress_index_150_stopwords" =>
           LET x == input_index.index
               y150 == call.output
               r30 == compress_index_30_stopwords(Enter(x), "index")
               y30 == Value(r30, r30.out)
           IN /\ Cardinality(DOMAIN y150) <= Cardinality(DOMAIN y30)
              /\ Cardinality(DOMAIN y30) <= Cardinality(DOMAIN x)
              /\ (DOMAIN x \ DOMAIN y30) \subseteq (DOMAIN x \ DOMAIN y150)

\* The 150-word filter dropped "The", which the 30-word filter drops too, and
\* "who", which the 30-word filter keeps.
C18_Witness ==
    /\ call.stage = "compress_index_150_stopwords"
    /\ DOMAIN input_index.index = {<<"T", "h", "e">>, <<"w", "h", "o">>}
    /\ DOMAIN call.output = {}

\* C19: whatever the stemmer returns, the index apply_stemming returns has at
\* most as many keys as its argument, its keys are the stems, so that two
\* terms with one stem are under one key, and the postings of a key are the
\* docIDs of all the terms with that stem, each once.
C19_StemmingMerges ==
    call.stage = "apply_stemming" =>
        LET x == input_index.index
            y == call.output
        IN /\ Cardinality(DOMAIN y) <= Cardinality(DOMAIN x)
           /\ DOMAIN y = {call.stem[t] : t \in DOMAIN x}
           /\ \A k \in DOMAIN y :
                  /\ Range(y[k]) = DocsUnder(x, call.stem, k)
                  /\ DuplicateFree(y[k])

\* Two terms with one stem, each with a docID the other lacks and one they share.
C19_Witness ==
    /\ call.stage = "apply_stemming"
    /\ \E t, u \in DOMAIN input_index.index :
           /\ t # u /\ call.stem[t] = call.stem[u]
           /\ Range(input_index.index[t]) \ Range(input_index.index[u]) # {}
           /\ Range(input_index.index[u]) \ Range(input_index.index[t]) # {}
           /\ Range(input_index.index[t]) \cap Range(input_index.index[u]) # {}
           /\ Len(call.output[call.stem[t]]) = 3

\* C20: a call of a compression stage or of build_compressed_index leaves its
\* argument as it was: the same keys, and under each key the same list.
C20_StagesLeaveInput ==
    call.stage # "none" =>
        /\ DOMAIN call.input_after = DOMAIN input_index.index
        /\ \A t \in DOMAIN input_index.index :
               call.input_after[t] = input_index.index[t]

\* build_compressed_index returned fewer terms than it was given, with a
\* postings list that is none of the argument's.
C20_Witness ==
    /\ call.stage = "build_compressed_index"
    /\ Cardinality(DOMAIN call.output) < Cardinality(DOMAIN input_index.index)
    /\ \E k \in DOMAIN call.output :
           \A t \in DOMAIN input_index.index : call.output[k] # input_index.index[t]

\* The numbers a list of docIDs denotes.
IntsOf(p) == {IntOf(p[i]) : i \in DOMAIN p}

StrictlyAscending(p) == \A i, j \in DOMAIN p : i < j => IntOf(p[i]) < IntOf(p[j])

\* An AND query of validate_queries_on_index whose two terms are keys.
AndOfKeys ==
    /\ answer.kind = "and"
    /\ answer.query[1] \in DOMAIN answer.on /\ answer.query[2] \in DOMAIN answer.on

\* C12: for duplicate-free lists A and B, intersect(A, B) holds exactly the
\* docIDs that are in A and in B, each once, ascending by their integer value,
\* and is equal to intersect(B, A); in validate_queries_on_index (docIDs are
\* strings) and in run_queries (docIDs are the ints of index.json).
C12_IntersectExact ==
    /\ AndOfKeys =>
           LET A == StrList(answer.on[answer.query[1]])
               B == StrList(answer.on[answer.query[2]])
               r == answer.result
           IN (DuplicateFree(A) /\ DuplicateFree(B)) =>
                  /\ IntsOf(r) = IntsOf(A) \cap IntsOf(B)
                  /\ Range(r) = Range(A) \cap Range(B)
                  /\ StrictlyAscending(r)
                  /\ r = intersect(B, A)
    /\ (collection.ran /\ collection.loaded) =>
           LET A == collection.ids[1]
               B == collection.ids[2]
               r == collection.common_ids
           IN (DuplicateFree(A) /\ DuplicateFree(B)) =>
                  /\ IntsOf(r) = IntsOf(A) \cap IntsOf(B)
                  /\ StrictlyAscending(r)
                  /\ r = intersect(B, A)

\* "10", "2" intersected with another list that holds both: 2 comes before 10.
C12_Witness ==
    /\ AndOfKeys
    /\ answer.query[1] # answer.query[2]
    /\ answer.on[answer.query[1]] = <<<<1, 0>>, <<2>>>>
    /\ answer.result = <<PyStr(<<2>>), PyStr(<<1, 0>>)>>

\* C13 as stated: for a duplicate-free list p that ascends by numeric docID,
\* intersect(p, p) is p: the same elements in the same order, each equal to
\* the element of p at its place; in both programs.
C13_IntersectIdempotent ==
    /\ (AndOfKeys /\ answer.query[1] = answer.query[2]) =>
           LET p == StrList(answer.on[answer.query[1]])
           IN (DuplicateFree(p) /\ StrictlyAscending(p)) => answer.result = p
    /\ (collection.ran /\ collection.loaded
            /\ collection.query[1] = collection.query[2]) =>
           LET p == collection.ids[1]
           IN (DuplicateFree(p) /\ StrictlyAscending(p)) => collection.common_ids = p

\* C14: an AND query with a term that is not a key gives the empty list and
\* raises nothing: in validate_queries_on_index no missing key is indexed, and
\* in run_queries the missing term has no details and the intersection is [].
C14_AbsentTermEmpty ==
    /\ (answer.kind = "and" /\ ~AndOfKeys) =>
           ~answer.raised /\ answer.result = <<>>
    /\ (collection.ran /\ collection.loaded) =>
           \A i \in 1..2 :
               collection.query[i] \notin DOMAIN index_json.index =>
                   /\ collection.details[i] = <<>>
                   /\ collection.common_ids = <<>>

\* One term of the AND query is a key and the other is not.
C14_Witness ==
    /\ answer.kind = "and"
    /\ answer.query[1] \in DOMAIN answer.on
    /\ answer.query[2] \notin DOMAIN answer.on
    /\ ~answer.raised

\* C15 as stated: process_single_term_query strips the term, lowercases it
\* exactly when the index it is put to was case-folded, and returns the
\* postings of that normalized term, [] when it is not a key, without raising.
C15_LookupNormalizes ==
    answer.kind = "single" =>
        LET t == IF answer.folded THEN lower(strip(answer.query))
                 ELSE strip(answer.query)
        IN /\ ~answer.raised
           /\ answer.result = IF t \in DOMAIN answer.on THEN answer.on[t] ELSE <<>>

\* The postings of term t in the blocks that the flushes i..n were given, in
\* flush order.
RECURSIVE FlushedPostings(_, _, _)
FlushedPostings(t, i, n) ==
    IF i > n THEN <<>>
    ELSE (IF t \in DOMAIN flushLog[i].block THEN flushLog[i].block[t] ELSE <<>>)
             \o FlushedPostings(t, i + 1, n)

\* C23: block_number is 0 at the start; each flush_block adds exactly 1 to it
\* and writes the file of that number, so the k-th flush of the build wrote
\* blocks/block_k.json and no later flush rewrote it; and the index closed()
\* writes holds, per term, the postings of the blocks 1..block_number in
\* ascending block order.
C23_BlocksNumberedInFlushOrder ==
    /\ [](/\ Len(flushLog) = block_number
          /\ \A k \in DOMAIN flushLog :
                 /\ flushLog[k].number = k
                 /\ Exists(disk, k) /\ disk[k] = JsonDump(flushLog[k].block)
          /\ index_json.written =>
                 \A t \in DOMAIN index_json.index :
                     index_json.index[t] = FlushedPostings(t, 1, block_number))
    /\ [][ /\ block_number' \in {block_number, block_number + 1}
           /\ Len(flushLog') = Len(flushLog) + (block_number' - block_number) ]_vars

\* Two blocks were flushed, the second by closed(), and merged.
C23_Witness ==
    /\ index_json.written /\ block_number = 2
    /\ \A k \in 1..2 : flushLog[k].number = k /\ flushLog[k].block # EmptyDict

\* C26: with max_documents set, document_count never exceeds it; the docIDs
\* handed to add_to_spimi_block are 1, 2, ... in the order of the calls, each
\* for one document; and once the quota is reached and no call is under way,
\* a parse_pdf callback changes neither the block nor the counters nor a file.
C26_QuotaBoundsCount ==
    /\ [](max_documents # 0 => document_count <= max_documents)
    /\ [](/\ \A i \in DOMAIN ingested : ingested[i].docID = i
          /\ Len(ingested) \in {document_count, document_count - 1}
          /\ Idle => Len(ingested) = document_count)
    /\ [][ (QuotaReached(max_documents, document_count) /\ Idle /\ phase' = "open")
           => UNCHANGED <<document_count, inverted_block, block_number, disk,
                          ingested, flushLog>> ]_vars

\* A response arrived after the quota of one document was reached, and was
\* dropped.
C26_Witness ==
    /\ max_documents = 1 /\ document_count = 1 /\ delivered = 2
    /\ Len(ingested) = 1 /\ Idle

\* C25: in the index uncompressed_index returns, and in the index every
\* compression stage returns, each term's postings list holds no docID twice
\* and is ascending by the integer value of the docIDs.
C25_PostingsSortedUnique ==
    /\ input_index.built =>
           \A t \in DOMAIN input_index.index :
               DuplicateFree(input_index.index[t]) /\ AscendingByInt(input_index.index[t])
    /\ call.stage # "none" =>
           \A k \in DOMAIN call.output :
               DuplicateFree(call.output[k]) /\ AscendingByInt(call.output[k])

\* The keys that reach the stemming stage of build_compressed_index: the
\* lowercase forms that are neither all digits nor one of the 150 stopwords.
KeysToStem(x) ==
    {k \in LowerKeys(x) : ~FullMatchDigits(k) /\ Join(k) \notin STOPWORDS_150}

\* C28 as stated: no key of the index build_compressed_index returns is all
\* digits or one of the 150 stopwords.
C28_NoNumericNoStopwordKeys ==
    call.stage = "build_compressed_index" =>
        \A k \in DOMAIN call.output :
            ~FullMatchDigits(k) /\ Join(k) \notin STOPWORDS_150

\* C28 amended: the keys of the index build_compressed_index returns are
\* exactly the stems of the lowercased terms of its argument that are neither
\* all digits nor one of the 150 stopwords; a stem itself may be either.
C28_KeysAreStemsOfKeptTerms ==
    call.stage = "build_compressed_index" =>
        DOMAIN call.output = {call.stem[k] : k \in KeysToStem(input_index.index)}

\* A numeral and a stopword were dropped, and the term that was kept has a
\* stopword for its stem.
C28_Witness ==
    /\ call.stage = "build_compressed_index"
    /\ DOMAIN input_index.index = {<<"T", "h", "e">>, <<"a", "b", "c", "1", "2", "3">>}
    /\ DOMAIN call.output = {<<"h", "e", "r">>}

\* No term of the block has two postings with one docID.
NoDocIDTwice(block) ==
    \A t \in DOMAIN block :
        \A i, j \in DOMAIN block[t] : i # j => block[t][i].docID # block[t][j].docID

\* C24: in the open block and in every block handed to a flush, no term's
\* postings list holds the same docID twice, also when add_to_spimi_block was
\* called twice with one docID before the block was flushed.
C24_NoDocIDTwiceInBlock ==
    /\ NoDocIDTwice(inverted_block)
    /\ \A k \in DOMAIN flushLog : NoDocIDTwice(flushLog[k].block)

\* The maximal runs of characters of class in text, each as the pair of its
\* first and last position.
MaximalRuns(text, class) ==
    LET inside == {i \in DOMAIN text : text[i] \in class}
        firsts == {i \in inside : i = 1 \/ text[i - 1] \notin class}
        lasts == {i \in inside : i = Len(text) \/ text[i + 1] \notin class}
    IN {r \in firsts \X lasts : r[1] <= r[2] /\ \A i \in r[1]..r[2] : i \in inside}

\* C21: the spider's tokenize returns, in text order, the stem of every
\* maximal run of the characters a-z, 0-9 of the lowercased text that is not
\* all digits and not a stopword, and nothing else; for a text that is empty
\* or blank it returns the empty list.
C21_TokenizeRuns ==
    tokenized.called =>
        LET low == LowerText(tokenized.text)
            run(r) == SubSeq(low, r[1], r[2])
            kept == {r \in MaximalRuns(low, LowerAlnum) :
                        /\ \E i \in r[1]..r[2] : low[i] \notin Digits
                        /\ Join(run(r)) \notin STOPWORDS}
            place(r) == Cardinality({q \in kept : q[1] <= r[1]})
        IN /\ Len(tokenized.tokens) = Cardinality(kept)
           /\ \A r \in kept : tokenized.tokens[place(r)] = Join(PorterStem(run(r)))
           /\ (\A i \in DOMAIN tokenized.text : tokenized.text[i] \in Whitespace)
                  => tokenized.tokens = <<>>

\* tokenize lowercased a text, dropped its stopword and its numeral and
\* returned the stems of the two words left, in text order.
C21_Witness ==
    /\ tokenized.called
    /\ tokenized.tokens = <<"ga", "waste">>
    /\ \E i \in DOMAIN tokenized.text : tokenized.text[i] = "W"

\* The PDF of the response a step hands to parse_pdf.
Arrived == extracted'[Len(extracted')].doc

\* The number of characters of text that are not blank.
NonBlank(text) == Cardinality({i \in DOMAIN text : text[i] \notin Whitespace})

\* C22 as stated: a response whose PDF gives fewer than 50 non-blank
\* characters of text leaves document_count, the open block, block_number,
\* the files and the documents ingested as they were.
C22_FewNonBlankSkipped ==
    [][ (delivered' = delivered + 1 /\ NonBlank(Arrived.text) < MIN_TEXT_LENGTH)
        => UNCHANGED <<document_count, inverted_block, block_number, disk,
                       ingested, flushLog>> ]_vars

\* C22 amended: a response whose PDF cannot be read, or whose text without
\* its leading and trailing blanks is shorter than 50 characters, leaves
\* document_count, the open block, block_number, the files and the documents
\* ingested as they were; and a response that arrives before the quota is
\* reached with a text of 50 characters or more is ingested under the next
\* docID, whatever was skipped before it.
C22_ShortTextSkipped ==
    [][ delivered' = delivered + 1 =>
          /\ (~Arrived.opens \/ Len(strip(Arrived.text)) < MIN_TEXT_LENGTH)
                 => UNCHANGED <<document_count, inverted_block, block_number, disk,
                                ingested, flushLog>>
          /\ (/\ Arrived.opens /\ Len(strip(Arrived.text)) >= MIN_TEXT_LENGTH
              /\ ~QuotaReached(max_documents, document_count))
                 => /\ document_count' = document_count + 1
                    /\ Len(ingested') = Len(ingested) + 1
                    /\ ingested'[Len(ingested')].docID = document_count' ]_vars

\* A PDF with ten characters of text was skipped and the PDF after it was
\* ingested as document 1.
C22_Witness ==
    /\ Len(extracted) = 2
    /\ extracted[1].doc.opens /\ extracted[1].doc.text # <<>>
    /\ NonBlank(extracted[1].doc.text) < MIN_TEXT_LENGTH
    /\ Len(strip(extracted[1].doc.text)) < MIN_TEXT_LENGTH
    /\ extracted[1].doc_id = 0
    /\ extracted[2].doc_id = 1 /\ document_count = 1
    /\ Len(ingested) = 1 /\ ingested[1].docID = 1

\* The letters and digits of ASCII.
AsciiAlnum == Range(Upper) \cup Range(Lower) \cup Digits

\* The words of a text: its maximal runs of ASCII letters and digits.
Words(text) == {SubSeq(text, r[1], r[2]) : r \in MaximalRuns(text, AsciiAlnum)}

\* C27: once index.json is written, for every document that was ingested and
\* every word of its text that, lowercased, is neither all digits nor a
\* stopword, get_doc_details of that word (the lookup of stem(lower(word)))
\* returns a posting of that document.
C27_QueryFindsIndexedWord ==
    (phase = "closed" /\ index_json.written) =>
        \A n \in DOMAIN extracted :
            extracted[n].doc_id # 0 =>
                \A w \in Words(extracted[n].doc.text) :
                    (~FullMatchDigits(LowerText(w)) /\ Join(LowerText(w)) \notin STOPWORDS)
                        => LET details == get_doc_details(index_json.index,
                                              Join(PorterStem(LowerText(w))))
                           IN \E i \in DOMAIN details :
                                  details[i].doc_id = PyInt(extracted[n].doc_id)

====
